---- MODULE Spec2Model ----
(***************************************************************************)
(* hr-metrics-automator: the Report Builder (src/build_dashboard_report.py) *)
(* and the Mock Data Generator (src/generate_mock_data.py).                *)
(*                                                                         *)
(* Spec    : one run of the Report Builder's main() over an input file.    *)
(* GenSpec : one run of the Mock Data Generator's main().                  *)
(*                                                                         *)
(* Floating-point columns are binary64 values computed with round to       *)
(* nearest, ties to even; integers wider than 32 bits are kept as           *)
(* limb sequences.                                                         *)
(***************************************************************************)
EXTENDS Integers, Sequences, FiniteSets, TLC

(* ---------- naturals of any size: limbs base 2^14, least significant first ---------- *)
LimbBits == 2 * 7
Base == 2 ^ LimbBits
MantBits == 52 + 1

RECURSIVE NatLimbs(_)
NatLimbs(n) == IF n = 0 THEN << >> ELSE <<n % Base>> \o NatLimbs(n \div Base)

RECURSIVE LVal(_)
LVal(a) == IF a = << >> THEN 0 ELSE a[1] + Base * LVal(Tail(a))

RECURSIVE TrimL(_)
TrimL(a) == IF a = << >> THEN a
            ELSE IF a[Len(a)] = 0 THEN TrimL(SubSeq(a, 1, Len(a) - 1)) ELSE a

Limb(a, i) == IF 1 <= i /\ i <= Len(a) THEN a[i] ELSE 0

RECURSIVE AddFrom(_, _, _, _)
AddFrom(a, b, i, c) ==
    IF i > Len(a) /\ i > Len(b) THEN (IF c = 0 THEN << >> ELSE <<c>>)
    ELSE LET t == Limb(a, i) + Limb(b, i) + c
         IN <<t % Base>> \o AddFrom(a, b, i + 1, t \div Base)
LAdd(a, b) == AddFrom(a, b, 1, 0)

RECURSIVE SubFrom(_, _, _, _)
SubFrom(a, b, i, c) ==
    IF i > Len(a) THEN << >>
    ELSE LET t == Limb(a, i) - Limb(b, i) - c
         IN <<t % Base>> \o SubFrom(a, b, i + 1, IF t < 0 THEN 1 ELSE 0)
LSub(a, b) == TrimL(SubFrom(a, b, 1, 0))

RECURSIVE LessFrom(_, _, _)
LessFrom(a, b, i) ==
    IF i = 0 THEN FALSE
    ELSE IF a[i] # b[i] THEN a[i] < b[i] ELSE LessFrom(a, b, i - 1)
LLess(a, b) == IF Len(a) # Len(b) THEN Len(a) < Len(b) ELSE LessFrom(a, b, Len(a))

RECURSIVE MulLimbFrom(_, _, _, _)
MulLimbFrom(a, c, i, carry) ==
    IF i > Len(a) THEN (IF carry = 0 THEN << >> ELSE <<carry>>)
    ELSE LET t == a[i] * c + carry
         IN <<t % Base>> \o MulLimbFrom(a, c, i + 1, t \div Base)

RECURSIVE MulFrom(_, _, _)
MulFrom(a, b, i) ==
    IF i > Len(b) THEN << >>
    ELSE LAdd(MulLimbFrom(a, b[i], 1, 0), <<0>> \o MulFrom(a, b, i + 1))
LMul(a, b) == TrimL(MulFrom(a, b, 1))

\* n divided by the small natural d (d < 2^16): quotient limbs and remainder
RECURSIVE DivFrom(_, _, _, _)
DivFrom(n, d, i, r) ==
    IF i = 0 THEN [q |-> << >>, r |-> r]
    ELSE LET t == r * Base + n[i]
             rest == DivFrom(n, d, i - 1, t % d)
         IN [q |-> rest.q \o <<t \div d>>, r |-> rest.r]
LDivMod(n, d) == LET x == DivFrom(n, d, Len(n), 0) IN [q |-> TrimL(x.q), r |-> x.r]

RECURSIVE BitLenNat(_)
BitLenNat(n) == IF n = 0 THEN 0 ELSE 1 + BitLenNat(n \div 2)
BitLen(a) == IF a = << >> THEN 0 ELSE LimbBits * (Len(a) - 1) + BitLenNat(a[Len(a)])

\* a * 2^k
ShiftLeft(a, k) ==
    LET q == k \div LimbBits
        r == k % LimbBits
    IN IF a = << >> THEN a
       ELSE [i \in 1..q |-> 0]
            \o TrimL([i \in 1..(Len(a) + 1) |->
                        ((Limb(a, i) * 2^r) % Base) + (Limb(a, i - 1) \div 2^(LimbBits - r))])

\* floor(a / 2^k)
ShiftRight(a, k) ==
    LET q == k \div LimbBits
        r == k % LimbBits
    IN TrimL([i \in 1..(Len(a) - q) |->
                (Limb(a, i + q) \div 2^r) + ((Limb(a, i + q + 1) % 2^r) * 2^(LimbBits - r))])

\* bit i of a, bit 1 the least significant
BitAt(a, i) == (Limb(a, (i - 1) \div LimbBits + 1) \div 2^((i - 1) % LimbBits)) % 2

\* some bit among the k least significant bits of a is set
LowBitsSet(a, k) == \E i \in 1..k : BitAt(a, i) = 1

RECURSIVE LowZerosFrom(_, _)
LowZerosFrom(a, i) == IF BitAt(a, i) = 0 THEN LowZerosFrom(a, i + 1) ELSE i - 1
\* the number of trailing zero bits of the nonzero a
LowZeros(a) == LowZerosFrom(a, 1)

(* ---------- binary64 values ---------- *)
FZero == [k |-> "zero", s |-> 1, m |-> << >>, e |-> 0]
FNaN == [k |-> "nan", s |-> 1, m |-> << >>, e |-> 0]
FInf(s) == [k |-> "inf", s |-> s, m |-> << >>, e |-> 0]

\* the nearest double (ties to even) to s * n * 2^e, n nonzero
Round(s, n, e) ==
    LET L == BitLen(n) IN
    IF L <= MantBits
    THEN [k |-> "fin", s |-> s, m |-> ShiftLeft(n, MantBits - L), e |-> e - (MantBits - L)]
    ELSE LET d == L - MantBits
             kept == ShiftRight(n, d)
             up == BitAt(n, d) = 1 /\ (LowBitsSet(n, d - 1) \/ BitAt(kept, 1) = 1)
             k2 == IF up THEN LAdd(kept, <<1>>) ELSE kept
         IN IF BitLen(k2) > MantBits
            THEN [k |-> "fin", s |-> s, m |-> ShiftRight(k2, 1), e |-> e + d + 1]
            ELSE [k |-> "fin", s |-> s, m |-> k2, e |-> e + d]

FromInt(n) == IF n = 0 THEN FZero
              ELSE Round(IF n < 0 THEN -1 ELSE 1, NatLimbs(IF n < 0 THEN -n ELSE n), 0)

FNeg(x) == [x EXCEPT !.s = -x.s]

FAddFin(x, y) ==
    LET emin == IF x.e < y.e THEN x.e ELSE y.e
        nx == ShiftLeft(x.m, x.e - emin)
        ny == ShiftLeft(y.m, y.e - emin)
    IN IF x.s = y.s THEN Round(x.s, LAdd(nx, ny), emin)
       ELSE IF nx = ny THEN FZero
       ELSE IF LLess(nx, ny) THEN Round(y.s, LSub(ny, nx), emin)
       ELSE Round(x.s, LSub(nx, ny), emin)

FAdd(x, y) ==
    IF x.k = "nan" \/ y.k = "nan" THEN FNaN
    ELSE IF x.k = "inf" THEN (IF y.k = "inf" /\ y.s # x.s THEN FNaN ELSE x)
    ELSE IF y.k = "inf" THEN y
    ELSE IF x.k = "zero" THEN y
    ELSE IF y.k = "zero" THEN x
    ELSE FAddFin(x, y)

FSub(x, y) == FAdd(x, FNeg(y))

FMul(x, y) ==
    IF x.k = "nan" \/ y.k = "nan" THEN FNaN
    ELSE IF x.k = "inf" \/ y.k = "inf"
         THEN (IF x.k = "zero" \/ y.k = "zero" THEN FNaN ELSE FInf(x.s * y.s))
    ELSE IF x.k = "zero" \/ y.k = "zero" THEN FZero
    ELSE LET zx == LowZeros(x.m)
             zy == LowZeros(y.m)
         IN Round(x.s * y.s, LMul(ShiftRight(x.m, zx), ShiftRight(y.m, zy)),
                  x.e + zx + y.e + zy)

\* x / y; the odd part of a finite divisor is below 2^16
FDiv(x, y) ==
    IF x.k = "nan" \/ y.k = "nan" THEN FNaN
    ELSE IF x.k = "inf" THEN (IF y.k = "inf" THEN FNaN ELSE FInf(x.s * y.s))
    ELSE IF y.k = "inf" THEN FZero
    ELSE IF y.k = "zero" THEN (IF x.k = "zero" THEN FNaN ELSE FInf(x.s))
    ELSE IF x.k = "zero" THEN FZero
    ELSE LET zy == LowZeros(y.m)
             d == LVal(ShiftRight(y.m, zy))
             k == BitLenNat(d) + 2
             qr == LDivMod(ShiftLeft(x.m, k), d)
             q2 == LAdd(ShiftLeft(qr.q, 1), IF qr.r = 0 THEN << >> ELSE <<1>>)
         IN Round(x.s * y.s, q2, x.e - k - (y.e + zy) - 1)

FLess(x, y) ==
    IF x.k = "nan" \/ y.k = "nan" THEN FALSE
    ELSE LET sx == IF x.k = "zero" THEN 0 ELSE x.s
             sy == IF y.k = "zero" THEN 0 ELSE y.s
             magLess(a, b) ==
                 IF a.k = "inf" THEN FALSE
                 ELSE IF b.k = "inf" THEN TRUE
                 ELSE IF a.e # b.e THEN a.e < b.e ELSE LLess(a.m, b.m)
         IN IF sx # sy THEN sx < sy
            ELSE IF sx = 0 THEN FALSE
            ELSE IF sx = 1 THEN magLess(x, y) ELSE magLess(y, x)

(* ---------- bounds and input domains ---------- *)
\* the most rows in the input file
MaxRows == 3
\* the largest noise draw of the generator, in standard deviations
NoiseMax == 40

\* YYYY-MM values an input row may carry; they straddle a year end
Months == {<<2024, 12>>, <<2025, 1>>, <<2025, 2>>}
\* department names, in the order groupby("department") lists them
Departments == <<"Engineering", "Sales">>
\* the numeric fields of an input row; rates are the CSV text in hundredths of a percent
Steady ==
    [headcount |-> 100, new_hires |-> 5, terminations |-> 2, open_positions |-> 3,
     time_to_fill_days |-> 30, offer_acceptance_rate |-> 8000, turnover_rate |-> 200]
Grown ==
    [headcount |-> 110, new_hires |-> 8, terminations |-> 3, open_positions |-> 4,
     time_to_fill_days |-> 28, offer_acceptance_rate |-> 8200, turnover_rate |-> 250]
Unstaffed ==
    [headcount |-> 0, new_hires |-> 0, terminations |-> 0, open_positions |-> 0,
     time_to_fill_days |-> 30, offer_acceptance_rate |-> 8000, turnover_rate |-> 250]
\* the figures a row of each department may carry
MetricsOf == <<{Steady, Grown}, {Grown, Unstaffed}>>
Metrics == UNION { MetricsOf[d] : d \in DOMAIN MetricsOf }

RowsOf(mo, d) ==
    { [month |-> mo, department |-> d, headcount |-> x.headcount, new_hires |-> x.new_hires,
       terminations |-> x.terminations, open_positions |-> x.open_positions,
       time_to_fill_days |-> x.time_to_fill_days,
       offer_acceptance_rate |-> x.offer_acceptance_rate, turnover_rate |-> x.turnover_rate] :
      x \in MetricsOf[d] }
MonthlyRecord == UNION { RowsOf(mo, d) : mo \in Months, d \in DOMAIN Departments }

SeqsUpTo(S, n) == UNION { [1..k -> S] : k \in 0..n }

\* the file at DATA_PATH: absent, or a table of rows of which one field may be
\* malformed text ("month": not a YYYY-MM value, "number": not a number in headcount)
InputFilesOver(pool) ==
    { [exists |-> FALSE, rows |-> << >>, defect |-> "none"] }
    \cup { [exists |-> TRUE, rows |-> rs, defect |-> "none"] : rs \in SeqsUpTo(pool, MaxRows) }
    \cup { [exists |-> TRUE, rows |-> <<r>>, defect |-> d] : r \in pool, d \in {"month", "number"} }

\* inputs of the runs of build_insights alone
InputFiles == InputFilesOver(MonthlyRecord)

\* inputs of the whole runs of main(): a staffed department and an unstaffed one
MainRecord ==
    { r \in MonthlyRecord : \/ r.department = 1 /\ r.headcount = 110
                            \/ r.department = 2 /\ r.headcount = 0 }
MainInputFiles == InputFilesOver(MainRecord)

Charts == <<"headcount_trend.png", "hiring_turnover_trend.png", "department_breakdown.png">>
Pptx == "hr_metrics_executive_dashboard.pptx"
SummaryTxt == "executive_summary.txt"
Outputs == <<Charts[1], Charts[2], Charts[3], Pptx, SummaryTxt>>
Range(f) == { f[i] : i \in DOMAIN f }

VARIABLES
    input,          \* the file at DATA_PATH
    outdir,         \* OUTPUT_DIR exists
    files,          \* names of the files under OUTPUT_DIR
    before,         \* outdir and files as they were when the run started
    pc,             \* the statement of main() to run next
    error,          \* the exception that ended the run
    df,             \* the frame load_data returned
    exec_summary,   \* the values build_insights interpolated into the summary
    frames,         \* the tables build_insights returned
    deck,           \* the values build_presentation put on slides 1 and 5
    written,        \* the files this run has written, in order
    gen_pc,         \* generator: the statement of main() to run next
    month_idx,      \* generator: index of the month being generated
    dept_idx,       \* generator: position in departments of the next department
    row,            \* generator: the row dict of the current iteration
    rows,           \* generator: how many rows the list rows holds
    csv             \* generator: number of rows in data/hr_metrics_monthly.csv

vars == <<input, outdir, files, before, pc, error, df, exec_summary, frames, deck, written,
          gen_pc, month_idx, dept_idx, row, rows, csv>>
reportVars == <<input, outdir, files, before, pc, error, df, exec_summary, frames, deck, written>>
genVars == <<gen_pc, month_idx, dept_idx, row, rows, csv>>

NoError == [at |-> "none", kind |-> "none", line |-> 0]
NoFrames == [monthly |-> << >>, dept_latest |-> << >>, latest |-> << >>, prior |-> << >>]

(* ---------- load_data ---------- *)
\* read_csv's reading of a decimal with two places, given in hundredths
ParseDecimal(k) == FDiv(FromInt(k), FromInt(100))

\* to_datetime(month + "-01"): the first day of the month
ToDatetime(mo) == <<mo[1], mo[2], 1>>

DateLess(a, b) ==
    \/ a[1] < b[1]
    \/ a[1] = b[1] /\ a[2] < b[2]
    \/ a[1] = b[1] /\ a[2] = b[2] /\ a[3] < b[3]

\* the column values of the input domain, and their readings, worked out once
ColumnValues(col) == { x[col] : x \in Metrics }
ParsedDecimals ==
    [k \in ColumnValues("offer_acceptance_rate") \cup ColumnValues("turnover_rate") |->
        ParseDecimal(k)]

LoadRow(r) ==
    [month |-> r.month, department |-> r.department, headcount |-> r.headcount,
     new_hires |-> r.new_hires, terminations |-> r.terminations,
     open_positions |-> r.open_positions, time_to_fill_days |-> r.time_to_fill_days,
     offer_acceptance_rate |-> ParsedDecimals[r.offer_acceptance_rate],
     turnover_rate |-> ParsedDecimals[r.turnover_rate],
     month_date |-> ToDatetime(r.month)]

LoadFrame(rs) == [i \in 1..Len(rs) |-> LoadRow(rs[i])]

(* ---------- build_insights ---------- *)
RECURSIVE SortDates(_)
SortDates(S) ==
    IF S = {} THEN << >>
    ELSE LET lo == CHOOSE d \in S : \A o \in S : ~DateLess(o, d)
         IN <<lo>> \o SortDates(S \ {lo})

RECURSIVE SortInts(_)
SortInts(S) ==
    IF S = {} THEN << >>
    ELSE LET lo == CHOOSE d \in S : \A o \in S : d <= o
         IN <<lo>> \o SortInts(S \ {lo})

\* groupby lists its keys in ascending order
MonthKeysPerRow(t) == [i \in DOMAIN t |-> t[i].month_date]
MonthKeys(t) == SortDates({ t[i].month_date : i \in DOMAIN t })
DeptKeys(t) == SortInts({ t[i].department : i \in DOMAIN t })

GroupRows(t, col, v) == SelectSeq(t, LAMBDA r : r[col] = v)

SumColFirst(t, col) == IF t = << >> THEN 0 ELSE t[1][col]
RECURSIVE SumCol(_, _)
SumCol(t, col) == IF t = << >> THEN 0 ELSE t[1][col] + SumCol(Tail(t), col)

RECURSIVE FSum(_, _)
FSum(vs, acc) == IF vs = << >> THEN acc ELSE FSum(Tail(vs), FAdd(acc, vs[1]))

\* "mean" of a nonempty group: of an integer column with the given total, and of
\* a float column, its values added up in row order
MeanOfInts(total, n) == FDiv(FromInt(total), FromInt(n))
MeanOfFloats(vs) == FDiv(FSum(vs, FZero), FromInt(Len(vs)))

\* one element of Series.pct_change(): cur / prev - 1
PctChangeGuarded(prev, cur) ==
    IF prev = 0 THEN FZero ELSE FSub(FDiv(FromInt(cur), FromInt(prev)), FromInt(1))
PctChangeDiffFirst(prev, cur) == FDiv(FromInt(cur - prev), FromInt(prev))
PctChange(prev, cur) == FSub(FDiv(FromInt(cur), FromInt(prev)), FromInt(1))

\* one element of Series.diff(): cur - prev
Diff(prev, cur) == FSub(cur, prev)

\* the totals a column of integers can reach over a group of at most n rows
RECURSIVE SumsUpTo(_, _)
SumsUpTo(V, n) ==
    IF n = 0 THEN {0}
    ELSE LET S == SumsUpTo(V, n - 1) IN S \cup { t + v : t \in S, v \in V }
Totals(col) == SumsUpTo(ColumnValues(col), MaxRows)
\* the groups of readings a float column can hold
FloatGroups(col) ==
    UNION { [1..n -> { ParsedDecimals[k] : k \in ColumnValues(col) }] : n \in 1..MaxRows }

\* the float results over the input domain, worked out once
IntMeans ==
    [total \in Totals("time_to_fill_days"), n \in 1..MaxRows |-> MeanOfInts(total, n)]
FloatMeans ==
    [vs \in FloatGroups("offer_acceptance_rate") \cup FloatGroups("turnover_rate") |->
        MeanOfFloats(vs)]
MoMPcts ==
    [prev \in Totals("headcount") \cup Totals("new_hires"),
     cur \in Totals("headcount") \cup Totals("new_hires") |->
        FMul(PctChange(prev, cur), FromInt(100))]
TurnoverMeans == { FloatMeans[vs] : vs \in FloatGroups("turnover_rate") }
Diffs == [prev \in TurnoverMeans, cur \in TurnoverMeans |-> Diff(prev, cur)]

MeanInt(t, col) == IntMeans[SumCol(t, col), Len(t)]
MeanFloat(t, col) == FloatMeans[[i \in 1..Len(t) |-> t[i][col]]]

AggMonth(g) ==
    [month_date |-> g[1].month_date,
     headcount |-> SumCol(g, "headcount"),
     new_hires |-> SumCol(g, "new_hires"),
     terminations |-> SumCol(g, "terminations"),
     open_positions |-> SumCol(g, "open_positions"),
     avg_time_to_fill |-> MeanInt(g, "time_to_fill_days"),
     avg_offer_acceptance |-> MeanFloat(g, "offer_acceptance_rate"),
     avg_turnover_rate |-> MeanFloat(g, "turnover_rate")]

RECURSIVE AggMonths(_, _)
AggMonths(t, keys) ==
    IF keys = << >> THEN << >>
    ELSE <<AggMonth(GroupRows(t, "month_date", keys[1]))>> \o AggMonths(t, Tail(keys))

\* df.groupby("month_date", as_index=False).agg(...)
GroupByMonth(t) == AggMonths(t, MonthKeys(t))

Injections(n) == { q \in [1..n -> 1..n] : \A i, j \in 1..n : i # j => q[i] # q[j] }

\* sort_values with the default kind: every arrangement of the rows in which no
\* row precedes one that sorts strictly before it (equal keys in either order)
SortValues(t, Before(_, _)) ==
    { [i \in 1..Len(t) |-> t[q[i]]] :
        q \in { q \in Injections(Len(t)) :
                  \A i, j \in 1..Len(t) : i < j => ~Before(t[q[j]], t[q[i]]) } }

ByMonthAsc(a, b) == DateLess(a.month_date, b.month_date)
ByMonthDesc(a, b) == DateLess(b.month_date, a.month_date)
ByHeadcountAsc(a, b) == a.headcount < b.headcount
ByHeadcountDesc(a, b) == a.headcount > b.headcount
ByTurnoverDesc(a, b) == FLess(b.turnover_rate, a.turnover_rate)
ByTimeToFillAsc(a, b) == FLess(a.time_to_fill_days, b.time_to_fill_days)

\* .sort_values("month_date")
SortByMonthWrong(t) == SortValues(t, ByMonthDesc)
SortByMonth(t) == SortValues(t, ByMonthAsc)

MoMRow(t, i) ==
    [month_date |-> t[i].month_date,
     headcount |-> t[i].headcount,
     new_hires |-> t[i].new_hires,
     terminations |-> t[i].terminations,
     open_positions |-> t[i].open_positions,
     avg_time_to_fill |-> t[i].avg_time_to_fill,
     avg_offer_acceptance |-> t[i].avg_offer_acceptance,
     avg_turnover_rate |-> t[i].avg_turnover_rate,
     headcount_mom_pct |->
         IF i = 1 THEN FNaN
         ELSE MoMPcts[t[i - 1].headcount, t[i].headcount],
     new_hires_mom_pct |->
         IF i = 1 THEN FNaN
         ELSE MoMPcts[t[i - 1].new_hires, t[i].new_hires],
     turnover_mom_delta |->
         IF i = 1 THEN FNaN
         ELSE Diffs[t[i - 1].avg_turnover_rate, t[i].avg_turnover_rate]]

RECURSIVE MoMFrom(_, _)
MoMFrom(t, i) == IF i > Len(t) THEN << >> ELSE <<MoMRow(t, i)>> \o MoMFrom(t, i + 1)
\* the three month-over-month columns added to the sorted table
WithMoM(t) == MoMFrom(t, 1)

AggDept(g) ==
    [department |-> g[1].department,
     headcount |-> SumCol(g, "headcount"),
     turnover_rate |-> MeanFloat(g, "turnover_rate"),
     time_to_fill_days |-> MeanInt(g, "time_to_fill_days")]

\* df[df["month_date"] == latest["month_date"]]
LatestRowsAll(t, date) == t
LatestRows(t, date) == SelectSeq(t, LAMBDA r : r.month_date = date)

RECURSIVE AggDepts(_, _)
AggDepts(t, keys) ==
    IF keys = << >> THEN << >>
    ELSE <<AggDept(GroupRows(t, "department", keys[1]))>> \o AggDepts(t, Tail(keys))

\* .groupby("department", as_index=False).agg(...)
GroupByDept(t) == AggDepts(t, DeptKeys(t))

\* .sort_values(col).iloc[0]
FirstOf(t, Before(_, _)) == { o[1] : o \in SortValues(t, Before) }

\* the values the f-string interpolates, in order
ExecSummary(latest, top_turnover, best_ttf) ==
    <<latest.month_date, latest.headcount, latest.headcount_mom_pct, latest.new_hires,
      latest.terminations, latest.avg_turnover_rate, latest.turnover_mom_delta,
      latest.avg_offer_acceptance, latest.avg_time_to_fill,
      top_turnover.department, top_turnover.turnover_rate,
      best_ttf.department, best_ttf.time_to_fill_days>>

\* t.iloc[k] for a negative k: defined when the table has at least -k rows
ILocInRange(t, k) == Len(t) + k >= 0
ILoc(t, k) == t[Len(t) + k + 1]

(* ---------- Report Builder: main ---------- *)
NoDeck == [summary |-> << >>, pictures |-> << >>, bullets |-> << >>]
NoFrame == [rows |-> << >>, headcount_dtype |-> "int64"]

\* an exception leaves main(): the process ends with a traceback
RaiseAndGoOn(step, kind, line, next) ==
    /\ pc' = next
    /\ error' = [at |-> step, kind |-> kind, line |-> line]
Raise(step, kind, line, next) ==
    /\ pc' = "exit"
    /\ error' = [at |-> step, kind |-> kind, line |-> line]

ReportInit ==
    /\ input \in MainInputFiles
    /\ outdir \in BOOLEAN
    /\ files = IF outdir THEN Range(Outputs) ELSE {}
    /\ before = [outdir |-> outdir, files |-> files]
    /\ pc = "mkdir"
    /\ error = NoError
    /\ df = NoFrame
    /\ exec_summary = << >>
    /\ frames = NoFrames
    /\ deck = NoDeck
    /\ written = << >>

\* build_insights(load_data(path)) called on its own, the output directory in place
InsightsInit ==
    /\ input \in InputFiles
    /\ outdir = TRUE
    /\ files = {}
    /\ before = [outdir |-> outdir, files |-> files]
    /\ pc = "load_data"
    /\ error = NoError
    /\ df = NoFrame
    /\ exec_summary = << >>
    /\ frames = NoFrames
    /\ deck = NoDeck
    /\ written = << >>

GenIdle ==
    /\ gen_pc = "idle"
    /\ month_idx = 0
    /\ dept_idx = 1
    /\ row = << >>
    /\ rows = 0
    /\ csv = 0

\* OUTPUT_DIR.mkdir(parents=True, exist_ok=True)
mkdir_output ==
    /\ pc = "mkdir"
    /\ \/ /\ outdir' = TRUE
          /\ pc' = "load_data"
          /\ UNCHANGED error
       \/ /\ ~outdir
          /\ Raise("mkdir", "OSError", 222, "load_data")
          /\ UNCHANGED outdir
    /\ UNCHANGED <<input, files, before, df, exec_summary, frames, deck, written>>
    /\ UNCHANGED genVars

\* df = load_data(DATA_PATH)
load_data ==
    /\ pc = "load_data"
    /\ \/ /\ ~input.exists
          /\ Raise("load_data", "FileNotFoundError", 21, "build_insights")
          /\ UNCHANGED df
       \/ /\ input.exists
          /\ input.defect = "month"
          /\ Raise("load_data", "ValueError", 23, "build_insights")
          /\ UNCHANGED df
       \/ /\ input.exists
          /\ input.defect # "month"
          /\ df' = [rows |-> LoadFrame(input.rows),
                    headcount_dtype |-> IF input.defect = "number" THEN "object" ELSE "int64"]
          /\ pc' = "build_insights"
          /\ UNCHANGED error
    /\ UNCHANGED <<input, outdir, files, before, exec_summary, frames, deck, written>>
    /\ UNCHANGED genVars

\* exec_summary, frames = build_insights(df)
build_insights ==
    /\ pc = "build_insights"
    /\ \/ /\ df.headcount_dtype = "object"
          /\ Raise("build_insights", "TypeError", 42, "save_chart_headcount")
          /\ UNCHANGED <<exec_summary, frames>>
       \/ /\ df.headcount_dtype = "int64"
          /\ \E grouped \in {GroupByMonth(df.rows)} :
             \E sorted \in SortByMonth(grouped) :
             \E monthly \in {WithMoM(sorted)} :
               \/ /\ ~ILocInRange(monthly, -1)
                  /\ Raise("build_insights", "IndexError", 46, "save_chart_headcount")
                  /\ UNCHANGED <<exec_summary, frames>>
               \/ /\ ILocInRange(monthly, -1)
                  /\ ~ILocInRange(monthly, -2)
                  /\ Raise("build_insights", "IndexError", 47, "save_chart_headcount")
                  /\ UNCHANGED <<exec_summary, frames>>
               \/ /\ ILocInRange(monthly, -2)
                  /\ \E latest \in {ILoc(monthly, -1)} :
                     \E prior \in {ILoc(monthly, -2)} :
                     \E by_dept \in {GroupByDept(LatestRows(df.rows, latest.month_date))} :
                     \E dept_latest \in SortValues(by_dept, ByHeadcountDesc) :
                     \E top_turnover \in FirstOf(dept_latest, ByTurnoverDesc) :
                     \E best_ttf \in FirstOf(dept_latest, ByTimeToFillAsc) :
                       /\ exec_summary' = ExecSummary(latest, top_turnover, best_ttf)
                       /\ frames' = [monthly |-> monthly, dept_latest |-> dept_latest,
                                     latest |-> <<latest>>, prior |-> <<prior>>]
                  /\ pc' = "save_chart_headcount"
                  /\ UNCHANGED error
    /\ UNCHANGED <<input, outdir, files, before, df, deck, written>>
    /\ UNCHANGED genVars

\* plt.savefig(out_path, dpi=160) of one chart function
SaveChart(step, i, line, next) ==
    /\ pc = step
    /\ \/ /\ files' = files \cup {Charts[i]}
          /\ written' = Append(written, Charts[i])
          /\ pc' = next
          /\ UNCHANGED error
       \/ /\ Raise(step, "OSError", line, next)
          /\ UNCHANGED <<files, written>>
    /\ UNCHANGED <<input, outdir, before, df, exec_summary, frames, deck>>
    /\ UNCHANGED genVars

save_chart_headcount == SaveChart("save_chart_headcount", 1, 89, "save_chart_hiring")
save_chart_hiring == SaveChart("save_chart_hiring", 2, 107, "save_chart_department")
save_chart_department == SaveChart("save_chart_department", 3, 125, "build_presentation")

\* pptx_path = build_presentation(exec_summary, frames, charts)
build_presentation ==
    /\ pc = "build_presentation"
    /\ LET latest == frames.latest[1] IN
       \E risk_dept \in FirstOf(frames.dept_latest, ByTurnoverDesc) :
       \E low_hc_dept \in FirstOf(frames.dept_latest, ByHeadcountAsc) :
         \/ /\ deck' = [summary |-> exec_summary,
                        pictures |-> Charts,
                        bullets |-> <<latest.headcount, latest.headcount_mom_pct,
                                      latest.avg_turnover_rate, risk_dept.department,
                                      risk_dept.turnover_rate, latest.avg_time_to_fill,
                                      latest.open_positions, low_hc_dept.department>>]
            /\ files' = files \cup {Pptx}
            /\ written' = Append(written, Pptx)
            /\ pc' = "write_text"
            /\ UNCHANGED error
         \/ /\ Raise("build_presentation", "OSError", 217, "write_text")
            /\ UNCHANGED <<deck, files, written>>
    /\ UNCHANGED <<input, outdir, before, df, exec_summary, frames>>
    /\ UNCHANGED genVars

\* summary_path.write_text(exec_summary + "\n", encoding="utf-8")
write_text ==
    /\ pc = "write_text"
    /\ \/ /\ files' = files \cup {SummaryTxt}
          /\ written' = Append(written, SummaryTxt)
          /\ pc' = "print"
          /\ UNCHANGED error
       \/ /\ Raise("write_text", "OSError", 248, "print")
          /\ UNCHANGED <<files, written>>
    /\ UNCHANGED <<input, outdir, before, df, exec_summary, frames, deck>>
    /\ UNCHANGED genVars

\* the three print calls that end main()
print_report ==
    /\ pc = "print"
    /\ pc' = "done"
    /\ UNCHANGED <<input, outdir, files, before, error, df, exec_summary, frames, deck, written>>
    /\ UNCHANGED genVars

(* ---------- Mock Data Generator ---------- *)
\* Quantities are fixed-point integers: headcount in 1/100, the hire estimate in
\* 1/1000, turnover_rate in 1/100000, the opening estimate in 1/10,
\* offer_acceptance_rate in 1/1000. A noise draw is a number of standard deviations.
departments == <<"Engineering", "Sales", "Operations", "HR", "Finance", "Customer Success">>
baseline == <<95, 62, 54, 18, 21, 37>>
trends == <<160, 100, 70, 20, 15, 80>>
turnover_base == <<1100, 1900, 1500, 1000, 900, 1700>>
ttf_base == <<47, 34, 31, 29, 36, 26>>
offer_base == <<820, 790, 840, 860, 810, 830>>

\* pd.date_range("2025-02-01", "2026-01-01", freq="MS")[i]
GenMonth(i) == <<2025 + (i + 1) \div 12, ((i + 1) % 12) + 1>>
NumGenMonths == Cardinality({ i \in 0..23 : GenMonth(i)[1] = 2025 \/ GenMonth(i) = <<2026, 1>> })

NormalDraws == {-NoiseMax, 0, NoiseMax}
\* np.random.uniform(1.1, 2.2), in tenths
UniformDraws == {11, 22}

Max(a, b) == IF a >= b THEN a ELSE b
Min(a, b) == IF a <= b THEN a ELSE b

BoundedNoFloor(value, low, high) == Min(high, value)
bounded(value, low, high) == Max(low, Min(high, value))

\* round(n / d) as Python rounds: to the nearest integer, halves to the even one
RoundHalfEven(n, d) ==
    LET q == n \div d
        r == n % d
    IN IF 2 * r > d THEN q + 1
       ELSE IF 2 * r = d THEN q + (q % 2)
       ELSE q

\* the row of one (month, department) iteration, given its eight random draws
GenRow(i, d, z_hc, z_hire, z_turn, z_term, u_open, z_open, z_ttf, z_offer) ==
    LET month == GenMonth(i)[2]
        seasonal_hiring_boost == IF month \in {3, 4, 9, 10} THEN 12 ELSE 8
        base_hc == baseline[d] * 100 + trends[d] * i + 120 * z_hc
        headcount == RoundHalfEven(Max(800, base_hc), 100)
        hire_rate == (35 * seasonal_hiring_boost) \div 10
        new_hires == RoundHalfEven(Max(0, headcount * hire_rate + 1000 * z_hire), 1000)
        turnover_rate ==
            bounded(turnover_base[d] + 350 * z_turn + (IF month \in {7, 8} THEN 200 ELSE 0),
                    400, 5000)
        terminations ==
            RoundHalfEven(Max(0, headcount * turnover_rate + 60000 * z_term), 100000)
        open_positions == RoundHalfEven(Max(0, new_hires * u_open + 12 * z_open), 10)
        time_to_fill ==
            RoundHalfEven(
                Max(15, ttf_base[d] + 4 * z_ttf - (IF month \in {10, 11} THEN 1 ELSE 0)), 1)
        offer_acceptance_rate ==
            bounded(offer_base[d] + 30 * z_offer - (IF month \in {6, 7} THEN 15 ELSE 0),
                    620, 950)
    IN [month |-> GenMonth(i),
        department |-> departments[d],
        headcount |-> headcount,
        new_hires |-> new_hires,
        terminations |-> terminations,
        open_positions |-> open_positions,
        time_to_fill_days |-> time_to_fill,
        \* round(offer_acceptance_rate * 100, 1), in tenths of a percent
        offer_acceptance_rate |-> RoundHalfEven(offer_acceptance_rate, 1),
        \* round(turnover_rate * 100, 2), in hundredths of a percent
        turnover_rate |-> RoundHalfEven(turnover_rate, 10)]

GenInit ==
    /\ gen_pc = "loop"
    /\ month_idx = 0
    /\ dept_idx = 1
    /\ row = << >>
    /\ rows = 0
    /\ csv = 0

ReportIdle ==
    /\ input = [exists |-> FALSE, rows |-> << >>, defect |-> "none"]
    /\ outdir = FALSE
    /\ files = {}
    /\ before = [outdir |-> outdir, files |-> files]
    /\ pc = "idle"
    /\ error = NoError
    /\ df = NoFrame
    /\ exec_summary = << >>
    /\ frames = NoFrames
    /\ deck = NoDeck
    /\ written = << >>

\* the body of the inner loop up to rows.append({...})
append_row ==
    /\ gen_pc = "loop"
    /\ month_idx < NumGenMonths
    /\ \E z_hc \in NormalDraws, z_hire \in NormalDraws, z_turn \in NormalDraws,
          z_term \in NormalDraws, u_open \in UniformDraws, z_open \in NormalDraws,
          z_ttf \in NormalDraws, z_offer \in NormalDraws :
         row' = <<GenRow(month_idx, dept_idx, z_hc, z_hire, z_turn, z_term,
                         u_open, z_open, z_ttf, z_offer)>>
    /\ rows' = rows + 1
    /\ gen_pc' = "appended"
    /\ UNCHANGED <<month_idx, dept_idx, csv>>
    /\ UNCHANGED reportVars

\* the loops move on to the next department, or to the next month
next_iteration ==
    /\ gen_pc = "appended"
    /\ row' = << >>
    /\ IF dept_idx < Len(departments)
       THEN dept_idx' = dept_idx + 1 /\ UNCHANGED month_idx
       ELSE dept_idx' = 1 /\ month_idx' = month_idx + 1
    /\ gen_pc' = "loop"
    /\ UNCHANGED <<rows, csv>>
    /\ UNCHANGED reportVars

\* df = pd.DataFrame(rows); df.to_csv(out, index=False)
to_csv ==
    /\ gen_pc = "loop"
    /\ month_idx = NumGenMonths
    /\ csv' = rows
    /\ gen_pc' = "print"
    /\ UNCHANGED <<month_idx, dept_idx, row, rows>>
    /\ UNCHANGED reportVars

\* the two print calls that end main()
gen_print ==
    /\ gen_pc = "print"
    /\ gen_pc' = "done"
    /\ UNCHANGED <<month_idx, dept_idx, row, rows, csv>>
    /\ UNCHANGED reportVars

GenStart == GenInit /\ ReportIdle

GenNext ==
    \/ append_row
    \/ next_iteration
    \/ to_csv
    \/ gen_print

GenSpec == GenStart /\ [][GenNext]_vars

Init == ReportInit /\ GenIdle

Next ==
    \/ mkdir_output
    \/ load_data
    \/ build_insights
    \/ save_chart_headcount
    \/ save_chart_hiring
    \/ save_chart_department
    \/ build_presentation
    \/ write_text
    \/ print_report

Spec == Init /\ [][Next]_vars

InsightsStart == InsightsInit /\ GenIdle

InsightsNext ==
    \/ load_data
    \/ build_insights

InsightsSpec == InsightsStart /\ [][InsightsNext]_vars

(* ---------- properties of build_insights (InsightsSpec) ---------- *)
\* build_insights has returned its summary and tables
Returned == frames # NoFrames

RawMonths == { input.rows[i].month : i \in DOMAIN input.rows }
MonthBefore(a, b) == a[1] * 12 + a[2] < b[1] * 12 + b[2]
MonthOfDate(d) == <<d[1], d[2]>>
LatestMonth == CHOOSE mo \in RawMonths : \A o \in RawMonths : ~MonthBefore(mo, o)

RECURSIVE SumOver(_, _)
SumOver(I, col) ==
    IF I = {} THEN 0
    ELSE LET i == CHOOSE j \in I : TRUE
         IN input.rows[i][col] + SumOver(I \ {i}, col)
\* the total of a raw column over the records of month mo
RawTotal(mo, col) == SumOver({ i \in DOMAIN input.rows : input.rows[i].month = mo }, col)

MonthlyRowOf(mo) ==
    CHOOSE r \in Range(frames.monthly) : MonthOfDate(r.month_date) = mo

\* C1: with at least 2 distinct months, the monthly table has exactly one row per
\* distinct month of the records, in strictly ascending month order; "latest" is
\* its last row and "prior" its second-to-last.
C1_MonthlyRows ==
    Returned =>
        LET m == frames.monthly IN
        /\ Cardinality(RawMonths) >= 2
        /\ Len(m) = Cardinality(RawMonths)
        /\ { MonthOfDate(m[i].month_date) : i \in DOMAIN m } = RawMonths
        /\ \A i \in DOMAIN m : m[i].month_date[3] = 1
        /\ \A i \in 1..(Len(m) - 1) :
             MonthBefore(MonthOfDate(m[i].month_date), MonthOfDate(m[i + 1].month_date))
        /\ frames.latest = <<m[Len(m)]>>
        /\ frames.prior = <<m[Len(m) - 1]>>
        /\ MonthOfDate(frames.latest[1].month_date) = LatestMonth

\* three months, listed latest first in the file
C1_Witness ==
    /\ Returned
    /\ Len(input.rows) = 3
    /\ Len(frames.monthly) = 3
    /\ MonthBefore(input.rows[3].month, input.rows[2].month)
    /\ MonthBefore(input.rows[2].month, input.rows[1].month)

\* C2: the monthly row of each month m holds the sums of headcount, new_hires,
\* terminations and open_positions over exactly the raw records of month m.
C2_MonthlySums ==
    Returned =>
        \A mo \in RawMonths :
            \E i \in DOMAIN frames.monthly :
                LET r == frames.monthly[i] IN
                /\ MonthOfDate(r.month_date) = mo
                /\ r.headcount = RawTotal(mo, "headcount")
                /\ r.new_hires = RawTotal(mo, "new_hires")
                /\ r.terminations = RawTotal(mo, "terminations")
                /\ r.open_positions = RawTotal(mo, "open_positions")

\* a month of two records with different figures beside another month
C2_Witness ==
    /\ Returned
    /\ \E i, j \in DOMAIN input.rows :
         /\ i # j
         /\ input.rows[i].month = input.rows[j].month
         /\ input.rows[i].headcount = 100
         /\ input.rows[j].headcount = 110
         /\ MonthlyRowOf(input.rows[i].month).headcount = 210

\* the totals the headcount and new_hires columns range over
MoMTotals == Totals("headcount") \cup Totals("new_hires")
\* (cur - prev) / prev * 100
DifferencePcts ==
    [prev \in MoMTotals, cur \in MoMTotals |->
        FMul(FDiv(FromInt(cur - prev), FromInt(prev)), FromInt(100))]
\* (cur / prev - 1) * 100
QuotientPcts ==
    [prev \in MoMTotals, cur \in MoMTotals |->
        FMul(FSub(FDiv(FromInt(cur), FromInt(prev)), FromInt(1)), FromInt(100))]
Subtractions == [a \in TurnoverMeans, b \in TurnoverMeans |-> FSub(a, b)]
\* 10.0 and its fifth successor among the doubles, 10.000000000000009
Ten == [k |-> "fin", s |-> 1, m |-> <<0, 0, 0, 1280>>, e |-> -49]
TenAndFiveUlps == [k |-> "fin", s |-> 1, m |-> <<5, 0, 0, 1280>>, e |-> -49]

FirstRowNull ==
    LET m == frames.monthly IN
    /\ m[1].headcount_mom_pct = FNaN
    /\ m[1].new_hires_mom_pct = FNaN
    /\ m[1].turnover_mom_delta = FNaN

\* the month that precedes mo among the months of the records
IsPriorMonth(pm, mo) ==
    /\ pm \in RawMonths
    /\ MonthBefore(pm, mo)
    /\ \A o \in RawMonths : MonthBefore(o, mo) => ~MonthBefore(pm, o)

LatestIndices == { i \in DOMAIN input.rows : input.rows[i].month = LatestMonth }
LatestIndicesOf(d) == { i \in LatestIndices : input.rows[i].department = d }
RECURSIVE IndicesInOrder(_)
IndicesInOrder(I) ==
    IF I = {} THEN << >>
    ELSE LET lo == CHOOSE i \in I : \A j \in I : i <= j
         IN <<lo>> \o IndicesInOrder(I \ {lo})

\* C4: dept_latest has exactly one row per department with a record in the latest
\* month and none for a department of earlier months only; each row aggregates
\* only latest-month records; the rows are in non-increasing headcount order.
C4_DeptLatest ==
    Returned =>
        LET dl == frames.dept_latest IN
        /\ { dl[i].department : i \in DOMAIN dl } =
               { input.rows[i].department : i \in LatestIndices }
        /\ Len(dl) = Cardinality({ input.rows[i].department : i \in LatestIndices })
        /\ \A i \in DOMAIN dl :
             LET I == IndicesInOrder(LatestIndicesOf(dl[i].department)) IN
             /\ dl[i].headcount = SumOver(LatestIndicesOf(dl[i].department), "headcount")
             /\ dl[i].time_to_fill_days =
                    IntMeans[SumOver(LatestIndicesOf(dl[i].department), "time_to_fill_days"),
                             Len(I)]
             /\ dl[i].turnover_rate =
                    FloatMeans[[k \in 1..Len(I) |-> ParsedDecimals[input.rows[I[k]].turnover_rate]]]
        /\ \A i \in 1..(Len(dl) - 1) : dl[i].headcount >= dl[i + 1].headcount

\* two departments in the latest month, the larger one second in name order, and
\* an earlier month with a record of its own
C4_Witness ==
    /\ Returned
    /\ Len(frames.dept_latest) = 2
    /\ frames.dept_latest[1].department = 2
    /\ frames.dept_latest[1].headcount > frames.dept_latest[2].headcount
    /\ \E i \in DOMAIN input.rows : input.rows[i].month # LatestMonth

\* the first row of t that no other row beats
FirstBest(t, Beats(_, _)) ==
    t[CHOOSE i \in DOMAIN t :
        /\ \A j \in DOMAIN t : ~Beats(t[j], t[i])
        /\ \A j \in 1..(i - 1) : \E o \in DOMAIN t : Beats(t[o], t[j])]

\* C8: the summary names the department of maximum turnover_rate and the one of
\* minimum time_to_fill_days over dept_latest, and of several departments tied for
\* the extreme the first in dept_latest's order.
C8_Original ==
    Returned =>
        /\ exec_summary[10] = FirstBest(frames.dept_latest, ByTurnoverDesc).department
        /\ exec_summary[12] = FirstBest(frames.dept_latest, ByTimeToFillAsc).department

(* ---------- properties of main (Spec) ---------- *)
\* main() has left build_insights behind, by its return or by its exception
PastInsights ==
    /\ pc \notin {"mkdir", "load_data", "build_insights"}
    /\ error.at \notin {"mkdir", "load_data"}
WellFormed == input.exists /\ input.defect = "none"

\* C5: when the input file does not exist or holds a malformed numeric or date
\* field, the run fails in the load step and the filesystem is as it was before
\* the run. (A run that the creation of the output directory itself stops is left
\* aside.)
C5_Original ==
    (pc = "exit" /\ error.at # "mkdir" /\ ~WellFormed) =>
        /\ error.at = "load_data"
        /\ outdir = before.outdir
        /\ files = before.files

\* C6 as stated: with fewer than 2 distinct months build_insights fails with an
\* index error at the prior-period access (line 47), returns nothing, and no
\* chart, presentation or summary file is written.
C6_Original ==
    (WellFormed /\ Cardinality(RawMonths) < 2 /\ PastInsights) =>
        /\ pc = "exit"
        /\ error = [at |-> "build_insights", kind |-> "IndexError", line |-> 47]
        /\ ~Returned
        /\ exec_summary = << >>
        /\ written = << >>
        /\ files = before.files

\* C6 amended: with fewer than 2 distinct months build_insights fails with an
\* index error, at the prior-period access (line 47) when there is exactly one
\* month and at the latest-period access (line 46) when there is no record at all;
\* it returns no summary or tables, and the run stops before any chart,
\* presentation or summary file is written.
C6_FewMonths ==
    (WellFormed /\ Cardinality(RawMonths) < 2 /\ PastInsights) =>
        /\ pc = "exit"
        /\ error = [at |-> "build_insights", kind |-> "IndexError",
                    line |-> IF RawMonths = {} THEN 46 ELSE 47]
        /\ ~Returned
        /\ exec_summary = << >>
        /\ written = << >>
        /\ files = before.files

\* two records of one month, stopped at the prior-period access
C6_Witness ==
    /\ WellFormed
    /\ Len(input.rows) = 2
    /\ Cardinality(RawMonths) = 1
    /\ pc = "exit"
    /\ error.line = 47

\* C9: the steps of main run in the order load, aggregate and summarize, three
\* charts, presentation, summary file: every file is written as the next of
\* Outputs, only after build_insights has returned; nothing already written is
\* removed; a step that fails writes nothing and ends the run, and no step is
\* taken after a failure.
C9_LinearOrder ==
    [][/\ error = NoError
       /\ written' # written =>
            /\ Returned
            /\ Len(written) < Len(Outputs)
            /\ written' = Append(written, Outputs[Len(written) + 1])
            /\ files' = files \cup {Outputs[Len(written) + 1]}
       /\ written' = written => files' = files
       /\ error' # NoError => pc' = "exit" /\ written' = written
       /\ frames' # frames => written = << >> /\ df.rows # << >>
       /\ df' # df => ~Returned /\ written = << >>
       /\ pc' = "done" => written' = Outputs
      ]_vars

\* the presentation could not be saved: the three charts stay, nothing follows
C9_Witness ==
    /\ pc = "exit"
    /\ error.at = "build_presentation"
    /\ written = Charts
    /\ deck = NoDeck

\* a month whose total of col is zero precedes another month of the records
ZeroPrior(col) ==
    \E mo \in RawMonths, pm \in RawMonths :
        IsPriorMonth(pm, mo) /\ RawTotal(pm, col) = 0
ZeroPriorValue(cur) == IF cur > 0 THEN FInf(1) ELSE FNaN

\* C10: a zero total of headcount (or new_hires) in the preceding month raises no
\* error: the affected row's value is +infinity, or NaN when the month's own total
\* is zero too, the last row's value goes into the summary, build_insights
\* returns, and the run can only stop afterwards for an I/O error while writing.
C10_ZeroDenominator ==
    /\ Returned =>
          LET m == frames.monthly IN
          /\ \A i \in 2..Len(m) :
               /\ m[i - 1].headcount = 0 =>
                     m[i].headcount_mom_pct = ZeroPriorValue(m[i].headcount)
               /\ m[i - 1].new_hires = 0 =>
                     m[i].new_hires_mom_pct = ZeroPriorValue(m[i].new_hires)
          /\ exec_summary[3] = m[Len(m)].headcount_mom_pct
    /\ (WellFormed /\ PastInsights /\ (ZeroPrior("headcount") \/ ZeroPrior("new_hires"))) =>
          /\ Returned
          /\ error.kind \in {"none", "OSError"}
          /\ error.at # "build_insights"

\* a run that ends with all its outputs, the latest headcount change infinite
C10_Witness ==
    /\ pc = "done"
    /\ ZeroPrior("headcount")
    /\ frames.latest[1].headcount_mom_pct = FInf(1)
    /\ exec_summary[3] = FInf(1)
    /\ written = Outputs

(* ---------- properties of the Mock Data Generator (GenSpec) ---------- *)
\* C7: whatever the noise draws, the row the generator appends has headcount,
\* new_hires, terminations and open_positions >= 0, time_to_fill_days > 0, and
\* offer_acceptance_rate and turnover_rate within 0..100 percent, each inside the
\* generator's clamps (headcount >= 8, time_to_fill_days >= 15, offer acceptance
\* 62.0..95.0, turnover 0.40..5.00); one row per month and department is written.
C7_RowConstraints ==
    /\ row # << >> =>
          LET r == row[1] IN
          /\ r.headcount \in Nat /\ r.headcount >= 8
          /\ r.new_hires \in Nat
          /\ r.terminations \in Nat
          /\ r.open_positions \in Nat
          /\ r.time_to_fill_days \in Nat /\ r.time_to_fill_days >= 15
          /\ r.offer_acceptance_rate >= 620 /\ r.offer_acceptance_rate <= 950
          /\ r.turnover_rate >= 40 /\ r.turnover_rate <= 500
          /\ r.offer_acceptance_rate >= 0 /\ r.offer_acceptance_rate <= 1000
          /\ r.turnover_rate >= 0 /\ r.turnover_rate <= 10000
          /\ r.month = GenMonth(month_idx)
          /\ r.department = departments[dept_idx]
    /\ gen_pc \in {"print", "done"} => csv = NumGenMonths * Len(departments)

\* a row whose draws drive every figure onto its clamp
C7_Witness ==
    /\ row # << >>
    /\ row[1].headcount = 8
    /\ row[1].terminations = 0
    /\ row[1].time_to_fill_days = 15
    /\ row[1].offer_acceptance_rate = 950
    /\ row[1].turnover_rate = 40
====
